---- MODULE Spec2Model ----
(***************************************************************************)
(* FileParser (src/FileParser.py): a directory of audio files is loaded    *)
(* into self.data by __init__, and extract_one_to_one / extract_all_to_one *)
(* run a caller-supplied processing function over self.data and write the  *)
(* resulting matrices to .csv files of a destination directory.            *)
(*                                                                         *)
(* Python strings are tuples of one-character strings, so that endswith,   *)
(* concatenation and str(i) are computed rather than assumed.  External    *)
(* collaborators (os.listdir, librosa, the processing function) are the    *)
(* small deterministic functions of the section "environment".             *)
(***************************************************************************)
EXTENDS Integers, Sequences, FiniteSets, TLC

\* Bounds of the model.
MaxFiles == 2
MaxCalls == 2

\* Python's None, where a string or a rate is expected: no string of characters.
None == <<"None">>
NoError == "NoError"

---------------------------------------------------------------------------
\* Strings.

DotWav == <<".", "w", "a", "v">>
DotCsv == <<".", "c", "s", "v">>
DotTxt == <<".", "t", "x", "t">>

DigitChars == <<"0", "1", "2", "3", "4", "5", "6", "7", "8", "9">>

\* str(n) for a non-negative int: its decimal digits.
RECURSIVE str(_)
str(n) ==
    IF n < 10 THEN <<DigitChars[n + 1]>>
    ELSE str(n \div 10) \o <<DigitChars[(n % 10) + 1]>>

endswith_prefix(s, suffix) ==
    Len(suffix) <= Len(s) /\ SubSeq(s, 1, Len(suffix)) = suffix

\* s.endswith(suffix)
endswith(s, suffix) ==
    /\ Len(suffix) <= Len(s)
    /\ SubSeq(s, Len(s) - Len(suffix) + 1, Len(s)) = suffix

---------------------------------------------------------------------------
\* Environment: the source directory, librosa and the processing function.

FileNames == { <<"a">> \o DotWav, <<"b">> \o DotWav, <<"w">> \o DotTxt }

\* The orders os.listdir can return: distinct names, at most MaxFiles of them.
Listings ==
    UNION { { l \in [1..n -> FileNames] :
                \A p, q \in 1..n : p # q => l[p] # l[q] } : n \in 0..MaxFiles }

\* librosa.get_samplerate(path): the native rate of the file, in digits.
get_samplerate(name) ==
    IF name[1] = "a" THEN str(44100) ELSE str(22050)

\* librosa.load(path)[0]: the samples of the file, one value standing for the
\* whole array; different files hold different samples.
load(name) ==
    IF name[1] = "a" THEN 1 ELSE IF name[1] = "b" THEN 2 ELSE 3

\* processing_function(datum, **param_dict): a 2 x 3 feature matrix.
processing_function(datum) ==
    << <<datum, datum + 1, datum + 2>>,
       <<10 * datum, 10 * datum + 1, 10 * datum + 2>> >>

\* data.T of a matrix given as a tuple of rows.
Transpose_identity(m) == m

Transpose(m) ==
    IF Len(m) = 0 THEN <<>>
    ELSE [c \in 1..Len(m[1]) |-> [r \in 1..Len(m) |-> m[r][c]]]

---------------------------------------------------------------------------
VARIABLES
    directory_exists,  \* whether self.directory exists on disk
    file_list,         \* what os.listdir(self.directory) returns
    file_extension,    \* self.file_extension
    sample_rate,       \* the sample_rate argument of __init__
    pc,                \* "init", "get_sample_rate", "load", "ready", "raised"
    i,                 \* the index of __get_sample_rate
    sr,                \* self.sr
    data,              \* self.data
    err,               \* the exception __init__ ended with
    dest_exists,       \* whether destination_dir exists
    files,             \* destination_dir: file name -> its lines
    last,              \* the last extract_* call: arguments and outcome
    ncalls             \* the number of extract_* calls made

vars == <<directory_exists, file_list, file_extension, sample_rate, pc, i, sr,
          data, err, dest_exists, files, last, ncalls>>

source_vars == <<directory_exists, file_list, file_extension, sample_rate>>
object_vars == <<pc, i, sr, data, err>>
dest_vars == <<dest_exists, files, last, ncalls>>

---------------------------------------------------------------------------
\* csv.writer and open().

RECURSIVE join(_, _)
join(sep, parts) ==
    IF Len(parts) = 0 THEN <<>>
    ELSE IF Len(parts) = 1 THEN parts[1]
    ELSE parts[1] \o sep \o join(sep, Tail(parts))

\* The line writer.writerow(row) writes, without its line terminator.
writerow(row) == join(<<",">>, [c \in 1..Len(row) |-> str(row[c])])

\* open(path, "a"): the file is created when absent and kept otherwise.
open_a(fs, name) ==
    IF name \in DOMAIN fs THEN fs ELSE (name :> <<>>) @@ fs

\* open(path, "w"): the file is created or truncated.
open_w_keep(fs, name) == open_a(fs, name)

open_w(fs, name) == (name :> <<>>) @@ fs

\* for row in data: writer.writerow(row), on the open file.
writerows(fs, name, rows) ==
    [fs EXCEPT ![name] = @ \o [r \in 1..Len(rows) |-> writerow(rows[r])]]

\* write_csv on data that is not a dict, without fieldnames (lines 178-181 do
\* nothing then).  io carries the directory's files, the names opened so far
\* and the exception raised, if any.
write_csv(io, csv_data, data_type, filename) ==
    IF data_type = "multi" THEN
        [io EXCEPT !.files = writerows(open_w(io.files, filename), filename, csv_data),
                   !.opened = Append(@, filename)]
    ELSE IF data_type = "dict" THEN
        \* DictWriter: a header line, then the rows, appended.
        [io EXCEPT !.files = writerows(open_a(io.files, filename), filename,
                                       <<csv_data[1]>> \o csv_data),
                   !.opened = Append(@, filename)]
    ELSE IF data_type # "multi" \/ data_type # "dict" THEN
        [io EXCEPT !.err = "RuntimeError"]
    ELSE
        [io EXCEPT !.files = writerows(open_a(io.files, filename), filename, csv_data),
                   !.opened = Append(@, filename)]

\* filename + str(i) + filetype, the name extract_one_to_one writes item i to.
out_name_suffix_last(filename, k, filetype) == filename \o filetype \o str(k)

out_name(filename, k, filetype) == filename \o str(k) \o filetype

---------------------------------------------------------------------------
\* __init__ and __get_sample_rate.

\* os.listdir(self.directory)
listdir_lenient ==
    IF directory_exists THEN [err |-> NoError, list |-> file_list]
    ELSE [err |-> NoError, list |-> <<>>]

listdir ==
    IF directory_exists THEN [err |-> NoError, list |-> file_list]
    ELSE [err |-> "FileNotFoundError", list |-> <<>>]

\* destination_dir before the first call: empty, or holding a file of an
\* earlier run under a name extract_one_to_one uses.
InitialFiles ==
    { <<>>, (out_name(<<"s">>, 0, DotCsv) :> << <<"7">>, <<"7">>, <<"7">>, <<"7">> >>) }

\* The entry of __init__: the arguments, the source directory and the
\* destination directory as the caller finds them.
Init ==
    /\ directory_exists \in BOOLEAN
    /\ file_list \in Listings
    /\ ~directory_exists => file_list = <<>>
    /\ file_extension \in {DotWav, DotTxt, None}
    /\ sample_rate \in {None, str(10025)}
    /\ pc = "init"
    /\ i = 0
    /\ sr = None
    /\ data = <<>>
    /\ err = NoError
    /\ dest_exists \in BOOLEAN
    /\ files \in InitialFiles
    /\ ~dest_exists => files = <<>>
    /\ last = [op |-> "none", filename |-> <<>>, filetype |-> <<>>, bad |-> {},
               result |-> NoError, invoked |-> <<>>, opened |-> <<>>,
               before |-> <<>>, rerun |-> FALSE]
    /\ ncalls = 0

\* Lines 67-73: the fields, and the choice between the given sample rate and
\* __get_sample_rate, whose first statement is the listdir of line 146.
FileParser_init ==
    /\ pc = "init"
    /\ IF sample_rate = None /\ file_extension = DotWav
       THEN IF listdir.err # NoError
            THEN /\ pc' = "raised"
                 /\ err' = listdir.err
                 /\ UNCHANGED <<i, sr>>
            ELSE /\ pc' = "get_sample_rate"
                 /\ i' = 0
                 /\ UNCHANGED <<sr, err>>
       ELSE /\ sr' = sample_rate
            /\ pc' = "load"
            /\ UNCHANGED <<i, err>>
    /\ UNCHANGED <<data>>
    /\ UNCHANGED <<source_vars, dest_vars>>

next_index_stuck(k) == k

\* i += 1
next_index(k) == k + 1

\* One iteration of the while True of __get_sample_rate.
get_sample_rate ==
    /\ pc = "get_sample_rate"
    /\ IF i + 1 > Len(file_list)
       THEN \* file_list[i] raises
            /\ pc' = "raised"
            /\ err' = "IndexError"
            /\ UNCHANGED <<i, sr>>
       ELSE IF endswith(file_list[i + 1], file_extension)
       THEN /\ sr' = get_samplerate(file_list[i + 1])
            /\ pc' = "load"
            /\ UNCHANGED <<i, err>>
       ELSE IF ~endswith(file_list[i + 1], file_extension)
       THEN /\ i' = next_index(i)
            /\ UNCHANGED <<pc, sr, err>>
       ELSE IF i > Len(file_list)
       THEN /\ pc' = "raised"
            /\ err' = "RuntimeError"
            /\ UNCHANGED <<i, sr>>
       ELSE UNCHANGED <<pc, i, sr, err>>
    /\ UNCHANGED <<data>>
    /\ UNCHANGED <<source_vars, dest_vars>>

\* The for loop of lines 75-78 over the names from index k on.
RECURSIVE load_loop(_, _, _)
load_loop(list, k, acc) ==
    IF k > Len(list) THEN acc
    ELSE IF endswith(list[k], file_extension)
    THEN load_loop(list, k + 1, Append(acc, load(list[k])))
    ELSE load_loop(list, k + 1, acc)

\* Lines 74-78.  The path argument is always given, so the test of line 74 is
\* the test of the extension alone.
load_data ==
    /\ pc = "load"
    /\ IF file_extension # None
       THEN IF listdir.err # NoError
            THEN /\ pc' = "raised"
                 /\ err' = listdir.err
                 /\ UNCHANGED <<data>>
            ELSE /\ data' = load_loop(listdir.list, 1, data)
                 /\ pc' = "ready"
                 /\ UNCHANGED <<err>>
       ELSE /\ pc' = "ready"
            /\ UNCHANGED <<data, err>>
    /\ UNCHANGED <<i, sr>>
    /\ UNCHANGED <<source_vars, dest_vars>>

---------------------------------------------------------------------------
\* extract_one_to_one and extract_all_to_one.

\* The filename arguments and the filetype arguments of the calls.
BaseNames == { <<"s">>, <<"t">> }
FileTypes == { DotCsv, DotTxt }

\* The processing function raises on the items of bad: on no item, or on one
\* item of self.data.
BadSets == { {} } \cup { {data[k]} : k \in 1..Len(data) }

NewIO == [files |-> files, opened |-> <<>>, invoked |-> <<>>, err |-> NoError]

\* Lines 111-114 from item k on (k counts from 1, enumerate's i is k - 1).
\* An exception of the processing function or of write_csv ends the loop.
RECURSIVE one_to_one_loop_swallow(_, _, _, _, _)
one_to_one_loop_swallow(k, io, filename, filetype, bad) ==
    IF k > Len(data) THEN io
    ELSE LET io1 == [io EXCEPT !.invoked = Append(@, data[k])]
             io2 == IF data[k] \notin bad /\ filetype = DotCsv
                    THEN write_csv(io1, Transpose(processing_function(data[k])),
                                   "multi", out_name(filename, k - 1, filetype))
                    ELSE io1
         IN  one_to_one_loop_swallow(k + 1, io2, filename, filetype, bad)

RECURSIVE one_to_one_loop(_, _, _, _, _)
one_to_one_loop(k, io, filename, filetype, bad) ==
    IF k > Len(data) THEN io
    ELSE LET io1 == [io EXCEPT !.invoked = Append(@, data[k])]
         IN  IF data[k] \in bad THEN [io1 EXCEPT !.err = "ExtractionError"]
             ELSE LET io2 == IF filetype = DotCsv
                             THEN write_csv(io1, Transpose(processing_function(data[k])),
                                            "multi", out_name(filename, k - 1, filetype))
                             ELSE io1
                  IN  IF io2.err # NoError THEN io2
                      ELSE one_to_one_loop(k + 1, io2, filename, filetype, bad)

\* Lines 140-143 from item k on.
RECURSIVE all_to_one_loop(_, _, _, _, _)
all_to_one_loop(k, io, filename, filetype, bad) ==
    IF k > Len(data) THEN io
    ELSE LET io1 == [io EXCEPT !.invoked = Append(@, data[k])]
         IN  IF data[k] \in bad THEN [io1 EXCEPT !.err = "ExtractionError"]
             ELSE LET io2 == IF filetype = DotCsv
                             THEN write_csv(io1, processing_function(data[k]),
                                            "centroid", filename \o filetype)
                             ELSE io1
                  IN  IF io2.err # NoError THEN io2
                      ELSE all_to_one_loop(k + 1, io2, filename, filetype, bad)

\* __checkpath(path): the directory exists afterwards, made by os.mkdir when
\* it did not.
checkpath(exists) == IF exists THEN exists ELSE TRUE

\* What a call leaves behind: the directory of __checkpath, the files the loop
\* wrote, and the record of the call.
finish_call(op, io, filename, filetype, bad) ==
    /\ dest_exists' = checkpath(dest_exists)
    /\ files' = io.files
    /\ last' = [op |-> op, filename |-> filename, filetype |-> filetype,
                bad |-> bad, result |-> io.err, invoked |-> io.invoked,
                opened |-> io.opened, before |-> files,
                rerun |-> /\ last.op = op
                          /\ last.filename = filename
                          /\ last.filetype = filetype
                          /\ last.bad = bad]
    /\ ncalls' = ncalls + 1

extract_one_to_one ==
    /\ pc = "ready"
    /\ ncalls < MaxCalls
    /\ \E filename \in BaseNames, filetype \in FileTypes, bad \in BadSets :
          finish_call("extract_one_to_one",
                      one_to_one_loop(1, NewIO, filename, filetype, bad),
                      filename, filetype, bad)
    /\ UNCHANGED <<source_vars, object_vars>>

extract_all_to_one ==
    /\ pc = "ready"
    /\ ncalls < MaxCalls
    /\ \E filename \in BaseNames, filetype \in FileTypes, bad \in BadSets :
          finish_call("extract_all_to_one",
                      all_to_one_loop(1, NewIO, filename, filetype, bad),
                      filename, filetype, bad)
    /\ UNCHANGED <<source_vars, object_vars>>

---------------------------------------------------------------------------
Next ==
    \/ FileParser_init
    \/ get_sample_rate
    \/ load_data
    \/ extract_one_to_one
    \/ extract_all_to_one

Spec == Init /\ [][Next]_vars

\* __init__ runs to its end once called: the interpreter keeps executing it.
FairSpec ==
    /\ Spec
    /\ WF_vars(FileParser_init)
    /\ WF_vars(get_sample_rate)
    /\ WF_vars(load_data)

---------------------------------------------------------------------------
\* Reading the files back, and the words of the properties.

DigitValue(c) == CHOOSE d \in 0..9 : DigitChars[d + 1] = c

\* int(s) of a string of digits.
RECURSIVE int(_)
int(s) ==
    IF Len(s) = 1 THEN DigitValue(s[1])
    ELSE 10 * int(SubSeq(s, 1, Len(s) - 1)) + DigitValue(s[Len(s)])

\* line.split(",")
RECURSIVE split_commas(_)
split_commas(line) ==
    IF \A k \in 1..Len(line) : line[k] # "," THEN <<line>>
    ELSE LET k == CHOOSE k \in 1..Len(line) :
                      line[k] = "," /\ \A j \in 1..(k - 1) : line[j] # ","
         IN  <<SubSeq(line, 1, k - 1)>> \o split_commas(SubSeq(line, k + 1, Len(line)))

\* The numeric rows a csv reader gets from the lines of a file.
ReadRows(lines) ==
    [r \in 1..Len(lines) |->
        LET f == split_commas(lines[r]) IN [c \in 1..Len(f) |-> int(f[c])]]

\* s ends with e: s is some prefix followed by e.
EndsWith(s, e) ==
    \E p \in 0..Len(s) :
        Len(s) = p + Len(e) /\ \A j \in 1..Len(e) : s[p + j] = e[j]

\* The positions of the directory listing whose name ends with the filter.
Matching == { k \in 1..Len(file_list) : EndsWith(file_list[k], file_extension) }

\* rows is the transpose of matrix m.
IsTransposeOf(rows, m) ==
    /\ Len(rows) = Len(m[1])
    /\ \A c \in 1..Len(rows) :
          /\ Len(rows[c]) = Len(m)
          /\ \A r \in 1..Len(m) : rows[c][r] = m[r][c]

\* base_filename + str(k) + ".csv"
NumberedName(k) == last.filename \o str(k) \o DotCsv

\* The name of the shared file of extract_all_to_one.
SharedName == last.filename \o DotCsv

\* The rows of extractor(item_k), extractor(item_k+1), ... one block after another.
RECURSIVE BlocksFrom(_)
BlocksFrom(k) ==
    IF k > Len(data) THEN <<>>
    ELSE processing_function(data[k]) \o BlocksFrom(k + 1)

\* Every file except those named in names is as it was before the call.
OthersUntouched(names) ==
    /\ DOMAIN files \ names = DOMAIN last.before \ names
    /\ \A n \in DOMAIN files \ names : files[n] = last.before[n]

Constructed == pc \in {"ready", "raised"}

---------------------------------------------------------------------------
C2_AllToOneWritesBlocks ==
    (/\ last.op = "extract_all_to_one"
     /\ last.filetype = DotCsv
     /\ last.bad = {}
     /\ Len(data) >= 1
     /\ SharedName \notin DOMAIN last.before)
    => /\ last.result = NoError
       /\ SharedName \in DOMAIN files
       /\ ReadRows(files[SharedName]) = BlocksFrom(1)
       /\ OthersUntouched({SharedName})

\* C3: with no sample rate, the filter ".wav" and a directory listing without
\* a matching name, construction ends with the RuntimeError "Sample Rate was
\* not specified and could not be determined" and with no other exception.
C3_NoMatchIsConfigurationError ==
    (/\ Constructed
     /\ sample_rate = None
     /\ file_extension = DotWav
     /\ directory_exists
     /\ Matching = {})
    => (pc = "raised" /\ err = "RuntimeError")

\* C4: an extract_one_to_one or extract_all_to_one call whose filetype is not
\* ".csv" ends with an UnsupportedOutputFormat error and leaves every file of
\* destination_dir as it was.
C4_UnsupportedFormatRaises ==
    (last.op # "none" /\ last.filetype # DotCsv)
    => /\ last.result = "UnsupportedOutputFormat"
       /\ last.opened = <<>>
       /\ files = last.before

\* C5: an extract_one_to_one call that repeats the call before it (same corpus,
\* destination, base filename, filetype and extractor) leaves the destination
\* as that first call left it; after a completed ".csv" call these are the N
\* numbered files, truncated and rewritten, never appended to.
C5_RerunLeavesSameFiles ==
    (last.op = "extract_one_to_one" /\ last.rerun)
    => /\ files = last.before
       /\ (last.filetype = DotCsv /\ last.result = NoError)
          => /\ Len(last.opened) = Len(data)
             /\ \A k \in 1..Len(data) :
                   /\ NumberedName(k - 1) \in DOMAIN files
                   /\ Len(files[NumberedName(k - 1)])
                         = Len(processing_function(data[k])[1])

C5_Witness ==
    /\ last.op = "extract_one_to_one"
    /\ last.rerun
    /\ last.filetype = DotCsv
    /\ last.result = NoError
    /\ Len(data) = 2
    /\ ncalls = 2

\* C6: an extract_all_to_one call that repeats the call before it, on N >= 1
\* items, appends: the shared file holds what the first call left followed by
\* the same blocks again, and no other file appears.
C6_RerunAppends ==
    (/\ last.op = "extract_all_to_one"
     /\ last.rerun
     /\ last.filetype = DotCsv
     /\ last.bad = {}
     /\ Len(data) >= 1)
    => /\ last.result = NoError
       /\ SharedName \in DOMAIN last.before
       /\ SharedName \in DOMAIN files
       /\ ReadRows(files[SharedName])
             = ReadRows(last.before[SharedName]) \o BlocksFrom(1)
       /\ DOMAIN files = DOMAIN last.before

\* C7: after construction with filter E on listing D, self.data has one entry
\* per name of D that ends with E, none for any other name, in the order of D.
C7_CorpusIsMatchingFilesInOrder ==
    (pc = "ready" /\ file_extension # None)
    => \E f \in [1..Len(data) -> 1..Len(file_list)] :
          /\ \A p, q \in 1..Len(data) : p < q => f[p] < f[q]
          /\ { f[k] : k \in 1..Len(data) } = Matching
          /\ \A k \in 1..Len(data) : data[k] = load(file_list[f[k]])

C7_Witness ==
    /\ pc = "ready"
    /\ Len(file_list) = 2
    /\ Len(data) = 1
    /\ Matching = {2}

\* C8, as stated: with a sample rate supplied, construction on a directory that
\* does not exist or has no matching name succeeds with an empty corpus, and a
\* later extract call invokes nothing and writes nothing.
C8_MissingOrEmptyDirectoryIsEmptyCorpus ==
    (Constructed /\ sample_rate # None /\ (~directory_exists \/ Matching = {}))
    => /\ pc = "ready"
       /\ err = NoError
       /\ data = <<>>
       /\ last.op # "none"
          => (last.invoked = <<>> /\ last.opened = <<>> /\ files = last.before)

\* C8, amended: with a sample rate supplied, construction on an existing
\* directory without a matching name succeeds with an empty corpus, and a later
\* extract call completes, invokes nothing and writes nothing; on a directory
\* that does not exist, construction with a filter given ends with os.listdir's
\* FileNotFoundError.
C8_EmptyDirectoryIsEmptyCorpus ==
    (Constructed /\ sample_rate # None)
    => /\ (directory_exists /\ Matching = {})
          => /\ pc = "ready"
             /\ err = NoError
             /\ data = <<>>
             /\ last.op # "none"
                => /\ last.result = NoError
                   /\ last.invoked = <<>>
                   /\ last.opened = <<>>
                   /\ files = last.before
       /\ (~directory_exists /\ file_extension # None)
          => (pc = "raised" /\ err = "FileNotFoundError")

C8_Witness ==
    /\ pc = "ready"
    /\ sample_rate # None
    /\ directory_exists
    /\ Len(file_list) = 2
    /\ Matching = {}
    /\ file_extension # None
    /\ last.op = "extract_all_to_one"
    /\ last.filetype = DotCsv
    /\ ncalls = 2

\* The first item the extractor fails on, when there is one.
FirstBad == CHOOSE k \in 1..Len(data) :
                data[k] \in last.bad /\ \A j \in 1..(k - 1) : data[j] \notin last.bad

\* C9: when the extractor fails on item k during extract_one_to_one, the call
\* ends with that failure, the extractor was invoked on items 0..k and on no
\* later item, no file outside those of items 0..k-1 is created or modified,
\* and (filetype ".csv") the files of items 0..k-1 hold their whole transposed
\* content.
C9_ExtractorFailureStopsTheLoop ==
    (last.op = "extract_one_to_one" /\ \E k \in 1..Len(data) : data[k] \in last.bad)
    => /\ last.result = "ExtractionError"
       /\ last.invoked = SubSeq(data, 1, FirstBad)
       /\ OthersUntouched({ NumberedName(j - 1) : j \in 1..(FirstBad - 1) })
       /\ last.filetype = DotCsv
          => /\ last.opened = [j \in 1..(FirstBad - 1) |-> NumberedName(j - 1)]
             /\ \A j \in 1..(FirstBad - 1) :
                   /\ NumberedName(j - 1) \in DOMAIN files
                   /\ IsTransposeOf(ReadRows(files[NumberedName(j - 1)]),
                                    processing_function(data[j]))

C9_Witness ==
    /\ last.op = "extract_one_to_one"
    /\ last.filetype = DotCsv
    /\ last.result = "ExtractionError"
    /\ Len(data) = 2
    /\ data[2] \in last.bad
    /\ Len(last.opened) = 1
    /\ Len(last.invoked) = 2

\* The scan of __get_sample_rate ran and is over.
Scanned ==
    /\ sample_rate = None
    /\ file_extension = DotWav
    /\ directory_exists
    /\ pc \in {"load", "ready", "raised"}

\* C10: the scan of __get_sample_rate ends for every listing, its index never
\* decreases, and it ends with the native rate of the first name, in listing
\* order, that ends with the filter, or with an exception when none does.
C10_ScanTerminates ==
    /\ (pc = "get_sample_rate") ~> (pc # "get_sample_rate")
    /\ [][i' >= i]_vars
    /\ [](Scanned =>
            IF Matching # {}
            THEN /\ err = NoError
                 /\ \E k \in Matching :
                       /\ \A j \in Matching : k <= j
                       /\ i = k - 1
                       /\ sr = get_samplerate(file_list[k])
            ELSE pc = "raised" /\ err # NoError /\ sr = None)

C10_Witness ==
    /\ Scanned
    /\ pc = "load"
    /\ Len(file_list) = 2
    /\ i = 1

====
